---- MODULE Spec2Model ----
(***************************************************************************)
(* Volatility pipeline of sp500-volatility-tracker:                        *)
(*   models/volatilityModels.js   (class VolatilityModels)                 *)
(*   services/volatilityAnalysisService.js (VolatilityAnalysisService)     *)
(*                                                                         *)
(* JavaScript numbers are modelled as fixed-point integers with Scale      *)
(* units per 1.0; every arithmetic step of the source is carried out in    *)
(* that arithmetic, in the order the source carries it out.  A square      *)
(* (Math.pow(x, 2), x * x) is kept at its full resolution, Scale * Scale   *)
(* units per 1.0, until Math.sqrt brings it back to Scale units.  A        *)
(* JavaScript value is a record [t, v]: t is "num", "null" or "nan".       *)
(***************************************************************************)
EXTENDS Integers, Sequences, FiniteSets, TLC

\* ------------------------------------------------------------------ state

VARIABLES
  market_data,            \* table market_data of one symbol, rows in timestamp order
  volatility_indicators,  \* table volatility_indicators, one row per timestamp
  har_model_params,       \* table har_model_params, one row per updated_at
  trading_signals,        \* table trading_signals, rows in insertion order
  now,                    \* the clock that new Date() reads
  response,               \* what the last call of a service method gave its caller
  call,                   \* the last direct call of a VolatilityModels function
  earlier                 \* the first generateVolatilitySignals call of the run

vars == <<market_data, volatility_indicators, har_model_params, trading_signals,
          now, response, call, earlier>>

tables == <<volatility_indicators, har_model_params, trading_signals>>

\* ------------------------------------------------------------------ numbers

Scale == 10 ^ 3

Num(x) == [t |-> "num", v |-> x]
Null == [t |-> "null", v |-> 0]
NaN == [t |-> "nan", v |-> 0]

IsNum(x) == x.t = "num"

\* ToNumber of the operand of a relational or arithmetic operator:
\* null converts to 0 (the callers below never pass NaN to it).
ToNumber(x) == IF x.t = "num" THEN x.v ELSE 0

FMul(a, b) == (a * b) \div Scale
FDiv(a, b) == (a * Scale) \div b

Abs(a) == IF a < 0 THEN -a ELSE a
Max2(a, b) == IF a >= b THEN a ELSE b

RECURSIVE ISqrtFrom(_, _)
ISqrtFrom(n, r) == IF r <= n \div r THEN r ELSE ISqrtFrom(n, (r + n \div r) \div 2)

\* floor of the square root of a natural number (Newton's iteration from above)
ISqrt(n) == IF n < 2 THEN n ELSE ISqrtFrom(n, n \div 2 + 1)

\* Math.sqrt of a non-negative number held in Scale units
FSqrt(x) == ISqrt(x * Scale)

\* Math.pow(x, 2) and x * x: the square, in Scale * Scale units
Sq(x) == x * x

\* Math.sqrt of a non-negative number held in Scale * Scale units
SqrtOfSq(x2) == ISqrt(x2)

\* ln 2 in fixed point
Ln2 == (693147 * Scale) \div (10 ^ 6)

RECURSIVE Log2Exact(_, _)
Log2Exact(a, b) ==
  IF a = b THEN 0
  ELSE IF a > b THEN 1 + Log2Exact(a, 2 * b)
  ELSE Log2Exact(2 * a, b) - 1

\* Math.log(a / b) for two prices whose ratio is a power of two
\* (the only ratios the price domain of this model produces).
LogRatio(a, b) == Log2Exact(a, b) * Ln2

\* ------------------------------------------------------------------ arrays

\* the sum of s[lo..hi], by halves (integer addition is associative, so the
\* order of the additions does not change the sum)
RECURSIVE SumRange(_, _, _)
SumRange(s, lo, hi) ==
  IF lo > hi THEN 0
  ELSE IF lo = hi THEN s[lo]
  ELSE SumRange(s, lo, (lo + hi) \div 2) + SumRange(s, (lo + hi) \div 2 + 1, hi)

\* ss.sum, reduce((a, b) => a + b, 0)
Sum(s) == SumRange(s, 1, Len(s))

\* ss.mean of a non-empty array
Mean(s) == Sum(s) \div Len(s)

\* Array.prototype.slice(from, to) with 0-based, non-negative, in-range
\* indices: the elements from .. to-1.
Slice(s, from, to) == SubSeq(s, from + 1, to)

\* Array.prototype.slice(-n): the last n elements (all of them when the
\* array is shorter).
SliceLast(s, n) == SubSeq(s, Max2(1, Len(s) - n + 1), Len(s))

\* the array a map() or a push() loop has built, as a tuple of its elements
Arr(f) == SubSeq(f, 1, Len(f))

\* ------------------------------------------------------------------ program constants

AnnualizationFactor == 252
HarLag == 22
HarWeek == 5
GarchMinReturns == 30
AtrPeriod == 14
BollingerPeriod == 20
RollingWindow == 20
MinBars == 30
LatestLimit == 252

\* ------------------------------------------------------------------ VolatilityModels

\* faulty variant of ReturnOf: the two prices of the pair are exchanged
ReturnOfReversed(prev, cur, type) ==
  IF type = "log" THEN LogRatio(prev, cur) ELSE FDiv(prev - cur, cur)

ReturnOf(prev, cur, type) ==
  IF type = "log" THEN LogRatio(cur, prev) ELSE FDiv(cur - prev, prev)

\* calculateReturns(prices, type): one return per consecutive pair,
\* the empty array for fewer than two prices.
calculateReturns(prices, type) ==
  Arr([k \in 1..(IF Len(prices) = 0 THEN 0 ELSE Len(prices) - 1) |->
         ReturnOf(prices[k], prices[k + 1], type)])

\* ss.variance / the mean of squared deviations of lines 116-118
MeanSquaredDeviation(x) ==
  LET mean == Mean(x)
      squaredDeviations == Arr([i \in 1..Len(x) |-> Sq(x[i] - mean)])
  IN  Mean(squaredDeviations)

\* faulty variant of calculateRealizedVolatility: the guard admits a sample
\* of one return
calculateRealizedVolatilityOfOne(returns, annualizationFactor) ==
  IF Len(returns) < 1 THEN Null
  ELSE Num(FMul(SqrtOfSq(MeanSquaredDeviation(returns)),
                FSqrt(annualizationFactor * Scale)))

calculateRealizedVolatility(returns, annualizationFactor) ==
  IF Len(returns) < 2 THEN Null
  ELSE LET variance == MeanSquaredDeviation(returns)
           dailyVol == SqrtOfSq(variance)
       IN  Num(FMul(dailyVol, FSqrt(annualizationFactor * Scale)))

calculateParkinsonVolatility(highPrices, lowPrices, n) ==
  IF Len(highPrices) # Len(lowPrices) \/ Len(highPrices) < 2 THEN Null
  ELSE LET ratios == Arr([i \in 1..Len(highPrices) |->
                             LogRatio(highPrices[i], lowPrices[i])])
           squaredRatios == Arr([i \in 1..Len(ratios) |-> Sq(ratios[i])])
           meanSquaredRatio == Mean(squaredRatios)
       IN  Num(FMul(SqrtOfSq(FDiv(meanSquaredRatio, 4 * Ln2)), FSqrt(n * Scale)))

\* the per-bar Garman-Klass term of line 229
GKTerm(o, h, l, c) ==
  LET u == LogRatio(h, l)
      cc == LogRatio(c, o)
  IN  FMul(Scale \div 2, Sq(u)) - FMul(2 * Ln2 - Scale, Sq(cc))

calculateGarmanKlassVolatility(open, high, low, close, n) ==
  IF Len(open) < 2 THEN Null
  ELSE LET gk == Arr([i \in 1..(Len(open) - 1) |->
                        GKTerm(open[i + 1], high[i + 1], low[i + 1], close[i + 1])])
       IN  \* Math.sqrt of a negative term is NaN, and NaN survives the mean
           IF \E i \in 1..Len(gk) : gk[i] < 0 THEN NaN
           ELSE LET volatilities == Arr([i \in 1..Len(gk) |-> SqrtOfSq(gk[i])])
                IN  Num(FMul(Mean(volatilities), FSqrt(n * Scale)))

\* a width that is the upper band alone, relative to the average
calculateBollingerBandWidthUpper(prices, period, numStd) ==
  IF Len(prices) < period THEN Null
  ELSE LET window == SliceLast(prices, period)
           sma == Mean(window)
           std == SqrtOfSq(MeanSquaredDeviation(window))
       IN  IF sma = 0 THEN NaN ELSE Num(FDiv(sma + numStd * std, sma))

calculateBollingerBandWidth(prices, period, numStd) ==
  IF Len(prices) < period THEN Null
  ELSE LET window == SliceLast(prices, period)
           sma == Mean(window)
           std == SqrtOfSq(MeanSquaredDeviation(window))
           upperBand == sma + numStd * std
           lowerBand == sma - numStd * std
       IN  IF sma = 0 THEN NaN ELSE Num(FDiv(upperBand - lowerBand, sma))

RECURSIVE EMAFrom(_, _, _)
EMAFrom(values, multiplier, n) ==
  IF n = 1 THEN values[1]
  ELSE LET ema == EMAFrom(values, multiplier, n - 1)
       IN  ema + FMul(values[n] - ema, multiplier)

calculateEMA(values, period) ==
  IF Len(values) = 0 THEN Null
  ELSE Num(EMAFrom(values, FDiv(2 * Scale, (period + 1) * Scale), Len(values)))

calculateATR(high, low, close, period) ==
  IF Len(high) < period + 1 THEN Null
  ELSE LET trueRanges == Arr([i \in 1..(Len(high) - 1) |->
                                Max2(high[i + 1] - low[i + 1],
                                     Max2(Abs(high[i + 1] - close[i]),
                                          Abs(low[i + 1] - close[i])))])
       IN  calculateEMA(trueRanges, period)

\* a forecast whose shock is the mean squared return
forecastGARCHMeanShock(returns, currentVolatility) ==
  IF Len(returns) < GarchMinReturns THEN Null
  ELSE Num(SqrtOfSq((Scale * Scale) \div (10 ^ 6)
                      + (8 * Mean(Arr([i \in 1..Len(returns) |-> Sq(returns[i])]))) \div 100
                      + 90 * (Sq(ToNumber(currentVolatility)) \div 100)))

\* faulty variant of forecastGARCH: the guard is off by one
forecastGARCHOffByOne(returns, currentVolatility) ==
  IF Len(returns) < GarchMinReturns - 1 THEN Null
  ELSE Num(SqrtOfSq((Scale * Scale) \div (10 ^ 6)
                      + (8 * Sq(returns[Len(returns)])) \div 100
                      + 90 * (Sq(ToNumber(currentVolatility)) \div 100)))

forecastGARCH(returns, currentVolatility) ==
  IF Len(returns) < GarchMinReturns THEN Null
  ELSE LET omega == (Scale * Scale) \div (10 ^ 6)
           lastReturn == returns[Len(returns)]
           shock == Sq(lastReturn)
           cv == ToNumber(currentVolatility)
       IN  \* alpha = 0.08 = 8/100, beta = 0.90 = 90/100
           Num(SqrtOfSq(omega + (8 * shock) \div 100 + 90 * (Sq(cv) \div 100)))

\* ------------------------------------------------------------------ HAR model

NegInf == [t |-> "-inf", v |-> 0]

NoCoefficients == <<0, 0, 0, 0>>
Thrown == [kind |-> "throw", coef |-> NoCoefficients]
Solved(coef) == [kind |-> "ok", coef |-> coef]

Det3(a, b, c) ==
    a[1] * (b[2] * c[3] - b[3] * c[2])
  - a[2] * (b[1] * c[3] - b[3] * c[1])
  + a[3] * (b[1] * c[2] - b[2] * c[1])

\* the three regressors of row r, relative to row q (every row starts
\* with the same intercept entry, so four rows are independent exactly when
\* these differences of three of them from the fourth are)
RowDiff(features, r, q) ==
  <<features[r][2] - features[q][2],
    features[r][3] - features[q][3],
    features[r][4] - features[q][4]>>

\* X'X is invertible exactly when X has four linearly independent rows
Invertible(features) ==
  \E a, b, c, d \in 1..Len(features) :
     /\ a < b /\ b < c /\ c < d
     /\ Det3(RowDiff(features, b, a), RowDiff(features, c, a), RowDiff(features, d, a)) # 0

\* every feature row equals the first one (X has rank one)
SameRows(features) ==
  \A r \in 1..Len(features) : features[r] = features[1]

\* ordinaryLeastSquares(features, targets).  math.multiply rejects the
\* product of two empty vectors.  math.inv eliminates in double precision and
\* rejects X'X only when a pivot column is exactly zero: that is certain when
\* all rows are equal; for any other singular X'X the rounding of the
\* elimination decides, which lies outside this arithmetic and is passed in
\* as `zeroPivot`.  A call that is not rejected returns the vector the
\* products give, passed in as `solution`.
ordinaryLeastSquares(features, targets, solution, zeroPivot) ==
  IF Len(features) = 0 THEN Thrown
  ELSE IF SameRows(features) THEN Thrown
  ELSE IF ~Invertible(features) /\ zeroPivot THEN Thrown
  ELSE Solved(solution)

\* a square that is never rooted, rounded to Scale units
SqRounded(x) == FMul(x, x)

calculateRSquared(actual, predicted) ==
  LET meanActual == Mean(actual)
      totalSS == Sum(Arr([i \in 1..Len(actual) |-> SqRounded(actual[i] - meanActual)]))
      residualSS == Sum(Arr([i \in 1..Len(actual) |-> SqRounded(actual[i] - predicted[i])]))
  IN  IF totalSS = 0 THEN (IF residualSS = 0 THEN NaN ELSE NegInf)
      ELSE Num(Scale - FDiv(residualSS, totalSS))

NoModel == [kind |-> "null", intercept |-> 0, dailyCoef |-> 0, weeklyCoef |-> 0,
            monthlyCoef |-> 0, rSquared |-> Null, mse |-> Null]
FitThrown == [NoModel EXCEPT !.kind = "throw"]

\* a feature row that reads the value it is to predict
HARRowLookAhead(volatilities, i) ==
  <<Scale,
    volatilities[i + 1],
    Mean(Slice(volatilities, i + 1 - HarWeek, i + 1)),
    Mean(Slice(volatilities, i + 1 - HarLag, i + 1))>>

\* the feature row fitHARModel builds for the JavaScript index i
\* (vol[i - 1] is the element at TLA+ position i)
HARRow(volatilities, i) ==
  <<Scale,
    volatilities[i],
    Mean(Slice(volatilities, i - HarWeek, i)),
    Mean(Slice(volatilities, i - HarLag, i))>>

HARFeatures(volatilities) ==
  Arr([r \in 1..(Len(volatilities) - HarLag) |-> HARRow(volatilities, HarLag + r - 1)])

HARTargets(volatilities) ==
  Arr([r \in 1..(Len(volatilities) - HarLag) |-> volatilities[HarLag + r]])

DotProduct(f, coefficients) ==
  FMul(f[1], coefficients[1]) + FMul(f[2], coefficients[2])
    + FMul(f[3], coefficients[3]) + FMul(f[4], coefficients[4])

fitHARModel(volatilities, solution, zeroPivot) ==
  IF Len(volatilities) < HarLag THEN NoModel
  ELSE LET features == HARFeatures(volatilities)
           targets == HARTargets(volatilities)
           ols == ordinaryLeastSquares(features, targets, solution, zeroPivot)
       IN  IF ols.kind = "throw" THEN FitThrown
           ELSE LET coefficients == ols.coef
                    predictions == Arr([r \in 1..Len(features) |->
                                          DotProduct(features[r], coefficients)])
                IN  [kind |-> "model",
                     intercept |-> coefficients[1],
                     dailyCoef |-> coefficients[2],
                     weeklyCoef |-> coefficients[3],
                     monthlyCoef |-> coefficients[4],
                     rSquared |-> calculateRSquared(targets, predictions),
                     mse |-> Num(Mean(Arr([r \in 1..Len(predictions) |->
                                             SqRounded(predictions[r] - targets[r])])))]

\* a forecast whose weekly window ends one element before the last
forecastHARShifted(model, recentVolatilities) ==
  IF model.kind # "model" \/ Len(recentVolatilities) < HarLag THEN Null
  ELSE LET last == Len(recentVolatilities)
           dailyRV == recentVolatilities[last]
           weeklyRV == Mean(Slice(recentVolatilities, last - 1 - HarWeek, last - 1))
           monthlyRV == Mean(SliceLast(recentVolatilities, HarLag))
       IN  Num(model.intercept + FMul(model.dailyCoef, dailyRV)
                 + FMul(model.weeklyCoef, weeklyRV)
                 + FMul(model.monthlyCoef, monthlyRV))

forecastHAR(model, recentVolatilities) ==
  IF model.kind # "model" \/ Len(recentVolatilities) < HarLag THEN Null
  ELSE LET dailyRV == recentVolatilities[Len(recentVolatilities)]
           weeklyRV == Mean(SliceLast(recentVolatilities, HarWeek))
           monthlyRV == Mean(SliceLast(recentVolatilities, HarLag))
       IN  Num(model.intercept + FMul(model.dailyCoef, dailyRV)
                 + FMul(model.weeklyCoef, weeklyRV)
                 + FMul(model.monthlyCoef, monthlyRV))

\* ------------------------------------------------------------------ regime

\* element k (0-based) of the sorted copy of x
SortedAt(x, k) ==
  CHOOSE v \in {x[i] : i \in 1..Len(x)} :
     /\ Cardinality({i \in 1..Len(x) : x[i] < v}) <= k
     /\ k < Cardinality({i \in 1..Len(x) : x[i] <= v})

\* ss.quantile(x, pct / 100) of a non-empty array, 0 < pct < 100
Quantile(x, pct) ==
  LET idx100 == Len(x) * pct
      idx == idx100 \div 100
  IN  IF idx100 % 100 # 0 THEN SortedAt(x, idx)
      ELSE IF Len(x) % 2 = 0 THEN (SortedAt(x, idx - 1) + SortedAt(x, idx)) \div 2
      ELSE SortedAt(x, idx)

\* faulty variant of identifyVolatilityRegime: a value equal to a percentile
\* falls in the regime below it
identifyVolatilityRegimeInclusive(currentVol, historicalVols) ==
  IF ToNumber(currentVol) <= Quantile(historicalVols, 25) THEN "low"
  ELSE IF ToNumber(currentVol) <= Quantile(historicalVols, 75) THEN "normal"
  ELSE IF ToNumber(currentVol) <= Quantile(historicalVols, 90) THEN "elevated"
  ELSE "extreme"

\* faulty variant of identifyVolatilityRegime: the first two percentiles are
\* exchanged
identifyVolatilityRegimeMisordered(currentVol, historicalVols) ==
  IF ToNumber(currentVol) < Quantile(historicalVols, 75) THEN "low"
  ELSE IF ToNumber(currentVol) < Quantile(historicalVols, 25) THEN "normal"
  ELSE IF ToNumber(currentVol) < Quantile(historicalVols, 90) THEN "elevated"
  ELSE "extreme"

identifyVolatilityRegime(currentVol, historicalVols) ==
  LET percentile25 == Quantile(historicalVols, 25)
      percentile75 == Quantile(historicalVols, 75)
      percentile90 == Quantile(historicalVols, 90)
      cur == ToNumber(currentVol)
  IN  IF cur < percentile25 THEN "low"
      ELSE IF cur < percentile75 THEN "normal"
      ELSE IF cur < percentile90 THEN "elevated"
      ELSE "extreme"

\* ------------------------------------------------------------------ signals

Signal(type, action, strength, reason) ==
  [type |-> type, action |-> action, strength |-> strength, reason |-> reason]

MeanReversionSignal ==
  Signal("volatility_mean_reversion", "prepare_to_buy", (8 * Scale) \div 10,
         "Extreme volatility likely to revert")
LowVolTrendSignal ==
  Signal("low_vol_trend", "buy", (7 * Scale) \div 10,
         "Uptrend in low volatility environment")
BreakoutSignal ==
  Signal("volatility_breakout", "wait", (6 * Scale) \div 10,
         "Potential volatility expansion")
HarDivergenceSignal ==
  Signal("har_divergence", "hedge", (65 * Scale) \div 100,
         "HAR model shows significant divergence")

\* the rules other than the HAR divergence rule
FirstThreeRules(volatilityData, priceData) ==
  (IF volatilityData.regime = "extreme"
        /\ ToNumber(volatilityData.har_forecast) < ToNumber(volatilityData.realized_volatility)
   THEN <<MeanReversionSignal>> ELSE <<>>)
  \o (IF volatilityData.regime = "low" /\ priceData.trend = "up"
      THEN <<LowVolTrendSignal>> ELSE <<>>)
  \o (IF ToNumber(volatilityData.bollinger_width)
           > FMul(volatilityData.historical_avg_width, (15 * Scale) \div 10)
      THEN <<BreakoutSignal>> ELSE <<>>)

\* faulty variant of generateVolatilitySignals: the divergence is taken
\* without Math.abs
generateVolatilitySignalsSigned(volatilityData, priceData) ==
  FirstThreeRules(volatilityData, priceData)
  \o (IF ToNumber(volatilityData.har_forecast) - ToNumber(volatilityData.realized_volatility)
           > FMul(ToNumber(volatilityData.realized_volatility), (2 * Scale) \div 10)
      THEN <<HarDivergenceSignal>> ELSE <<>>)

\* faulty variant of generateVolatilitySignals: a signal type that an earlier
\* call has emitted is not emitted again
generateVolatilitySignalsOnce(volatilityData, priceData) ==
  LET all == FirstThreeRules(volatilityData, priceData)
               \o (IF Abs(ToNumber(volatilityData.har_forecast)
                            - ToNumber(volatilityData.realized_volatility))
                        > FMul(ToNumber(volatilityData.realized_volatility),
                               (2 * Scale) \div 10)
                   THEN <<HarDivergenceSignal>> ELSE <<>>)
  IN  SelectSeq(all, LAMBDA sig : \A i \in 1..Len(earlier.ret) : earlier.ret[i] # sig)

generateVolatilitySignals(volatilityData, priceData) ==
  LET har == ToNumber(volatilityData.har_forecast)
      rv == ToNumber(volatilityData.realized_volatility)
      s1 == IF volatilityData.regime = "extreme" /\ har < rv
            THEN <<MeanReversionSignal>> ELSE <<>>
      s2 == IF volatilityData.regime = "low" /\ priceData.trend = "up"
            THEN <<LowVolTrendSignal>> ELSE <<>>
      s3 == IF ToNumber(volatilityData.bollinger_width)
                 > FMul(volatilityData.historical_avg_width, (15 * Scale) \div 10)
            THEN <<BreakoutSignal>> ELSE <<>>
      harDivergence == Abs(har - rv)
      s4 == IF harDivergence > FMul(rv, (2 * Scale) \div 10)
            THEN <<HarDivergenceSignal>> ELSE <<>>
  IN  s1 \o s2 \o s3 \o s4

\* ------------------------------------------------------------------ VolatilityAnalysisService

\* marketDataService.getLatestData(symbol, limit): the newest `limit` rows,
\* oldest first
getLatestData(rows, limit) == SliceLast(rows, limit)

\* calculateRollingVolatilities(returns, window): every window holds
\* `window` >= 2 returns, so every element is a number
calculateRollingVolatilities(returns, window) ==
  Arr([j \in 1..(IF Len(returns) < window THEN 0 ELSE Len(returns) - window + 1) |->
         calculateRealizedVolatility(SubSeq(returns, j, j + window - 1), 1).v])

\* a trend whose long average covers all the prices there are when there
\* are fewer than 50
calculateTrendOfAll(prices) ==
  IF Len(prices) < 20 THEN "unknown"
  ELSE LET sma20 == Sum(SliceLast(prices, 20)) \div 20
           sma50 == IF Len(prices) >= 50 THEN Sum(SliceLast(prices, 50)) \div 50
                    ELSE Sum(prices) \div Len(prices)
           currentPrice == prices[Len(prices)]
       IN  IF currentPrice > sma20 /\ sma20 > sma50 THEN "up"
           ELSE IF currentPrice < sma20 /\ sma20 < sma50 THEN "down"
           ELSE "sideways"

calculateTrend(prices) ==
  IF Len(prices) < 20 THEN "unknown"
  ELSE LET sma20 == Sum(SliceLast(prices, 20)) \div 20
           sma50 == IF Len(prices) >= 50 THEN Sum(SliceLast(prices, 50)) \div 50 ELSE sma20
           currentPrice == prices[Len(prices)]
       IN  IF currentPrice > sma20 /\ sma20 > sma50 THEN "up"
           ELSE IF currentPrice < sma20 /\ sma20 < sma50 THEN "down"
           ELSE "sideways"

\* faulty variant of ScaleForecast: the horizon is not rooted
ScaleForecastLinear(daily, k) ==
  IF daily.t = "nan" THEN NaN ELSE Num(ToNumber(daily) * k)

\* harForecastDaily * Math.sqrt(k): null converts to 0 in the product,
\* NaN stays NaN
ScaleForecast(daily, k) ==
  IF daily.t = "nan" THEN NaN ELSE Num(FMul(ToNumber(daily), FSqrt(k * Scale)))

\* the guard of line 49: harModel && rollingVols.length >= 22
HaveForecast(harModel, rollingVols) ==
  harModel.kind = "model" /\ Len(rollingVols) >= HarLag

NoIndicators ==
  [realized_volatility |-> Null, har_forecast_daily |-> Null,
   har_forecast_weekly |-> Null, har_forecast_monthly |-> Null,
   garch_forecast |-> Null, atr_14 |-> Null, bollinger_band_width |-> Null,
   parkinson_volatility |-> Null, garman_klass_volatility |-> Null]

NoAnalysis ==
  [volatility_indicators |-> NoIndicators, har_model |-> NoModel,
   volatility_regime |-> "none", trend |-> "none", signals |-> <<>>]

\* a computation without the guard of line 18: it hands an empty snapshot
\* to the three saves whatever the number of bars
ComputeAnalysisUnguarded(rows, solution, zeroPivot) ==
  [status |-> "computed", error |-> "", analysis |-> NoAnalysis]

\* The computation of analyzeVolatility, lines 16-109: what the try block
\* has in hand when it reaches the three saves, or the throw that ends it.
ComputeAnalysis(rows, solution, zeroPivot) ==
  LET marketData == getLatestData(rows, LatestLimit)
  IN  IF Len(marketData) < MinBars
      THEN [status |-> "thrown", error |-> "Insufficient data for volatility analysis",
            analysis |-> NoAnalysis]
      ELSE
      LET closes == Arr([i \in 1..Len(marketData) |-> marketData[i].close])
          highs == Arr([i \in 1..Len(marketData) |-> marketData[i].high])
          lows == Arr([i \in 1..Len(marketData) |-> marketData[i].low])
          opens == Arr([i \in 1..Len(marketData) |-> marketData[i].open])
          returns == calculateReturns(closes, "log")
          realizedVol == calculateRealizedVolatility(returns, AnnualizationFactor)
          parkinsonVol == calculateParkinsonVolatility(highs, lows, AnnualizationFactor)
          garmanKlassVol ==
            calculateGarmanKlassVolatility(opens, highs, lows, closes, AnnualizationFactor)
          atr == calculateATR(highs, lows, closes, AtrPeriod)
          bollingerWidth == calculateBollingerBandWidth(closes, BollingerPeriod, 2)
          rollingVols == calculateRollingVolatilities(returns, RollingWindow)
          harModel == fitHARModel(rollingVols, solution, zeroPivot)
      IN  IF harModel.kind = "throw"
          THEN [status |-> "thrown", error |-> "ordinaryLeastSquares",
                analysis |-> NoAnalysis]
          ELSE
          LET haveForecast == HaveForecast(harModel, rollingVols)
              harForecastDaily ==
                IF haveForecast THEN forecastHAR(harModel, rollingVols) ELSE Null
              harForecastWeekly ==
                IF haveForecast THEN ScaleForecast(harForecastDaily, HarWeek) ELSE Null
              harForecastMonthly ==
                IF haveForecast THEN ScaleForecast(harForecastDaily, HarLag) ELSE Null
              garchForecast == forecastGARCH(returns, realizedVol)
              regime == identifyVolatilityRegime(realizedVol, rollingVols)
              trend == calculateTrend(closes)
              volatilityData ==
                [realized_volatility |-> realizedVol,
                 har_forecast |-> harForecastDaily,
                 regime |-> regime,
                 bollinger_width |-> bollingerWidth,
                 historical_avg_width |-> Scale \div 10]
              priceData == [trend |-> trend, current_price |-> closes[Len(closes)]]
              signals == generateVolatilitySignals(volatilityData, priceData)
          IN  [status |-> "computed", error |-> "",
               analysis |->
                 [volatility_indicators |->
                    [realized_volatility |-> realizedVol,
                     har_forecast_daily |-> harForecastDaily,
                     har_forecast_weekly |-> harForecastWeekly,
                     har_forecast_monthly |-> harForecastMonthly,
                     garch_forecast |-> garchForecast,
                     atr_14 |-> atr,
                     bollinger_band_width |-> bollingerWidth,
                     parkinson_volatility |-> parkinsonVol,
                     garman_klass_volatility |-> garmanKlassVol],
                  har_model |-> harModel,
                  volatility_regime |-> regime,
                  trend |-> trend,
                  signals |-> signals]]

\* ------------------------------------------------------------------ bounds and inputs

BatchLen == 6
ShockDay == 4
MaxBars == 48
MaxClock == 1
MaxSignalRows == 3
MaxShocks == 1

\* a day on which nothing moved, and a day that opened at 1.0 and closed at
\* its high, 2.0
Flat == [open |-> Scale, high |-> Scale, low |-> Scale, close |-> Scale]
Wide == [open |-> Scale, high |-> 2 * Scale, low |-> Scale, close |-> 2 * Scale]
\* a stored day whose close, 2.0, lies above its high, 1.0
Gap == [open |-> Scale, high |-> Scale, low |-> Scale, close |-> 2 * Scale]

Batch(n, w) == Arr([i \in 1..n |-> IF i = w THEN Wide ELSE Flat])

\* the number of days of a series of bars on which the price moved
Shocks(bars) == Cardinality({i \in 1..Len(bars) : bars[i] # Flat})

\* what a caller hands to saveMarketData: BatchLen consecutive days
Batches == {Batch(BatchLen, 0), Batch(BatchLen, ShockDay)}

\* the coefficient vectors ordinaryLeastSquares may return
\* (intercept, daily, weekly, monthly)
Solutions == {<<0, Scale \div 2, 0, 0>>, <<Scale \div 10, Scale, -(Scale \div 2), 0>>}

\* a call of a VolatilityModels function: its arguments, whether it is still
\* to run ("pending"), has returned or has thrown, what it returned, and its
\* argument objects as they are after the call
\* `ols` holds the arguments of the ordinaryLeastSquares call a fitHARModel
\* call made, if it made one
Pending(fn, args) ==
  [fn |-> fn, args |-> args, state |-> "pending", ret |-> Null, after |-> args,
   ols |-> <<>>]
Returned(c, ret) == [c EXCEPT !.state = "returned", !.ret = ret]

NoCall == [fn |-> "none", args |-> <<>>, state |-> "none", ret |-> Null, after |-> <<>>,
           ols |-> <<>>]

\* no generateVolatilitySignals call yet; otherwise its arguments, what it
\* returned, and whether another function has been called since
NoEarlier == [args |-> <<>>, ret |-> <<>>, others |-> FALSE]
NoResponse == [op |-> "none", kind |-> "none", error |-> "", count |-> 0,
               timestamp |-> 0, analysis |-> NoAnalysis]

Init ==
  /\ market_data = <<>>
  /\ volatility_indicators = {}
  /\ har_model_params = {}
  /\ trading_signals = <<>>
  /\ now = 0
  /\ response = NoResponse
  /\ call = NoCall
  /\ earlier = NoEarlier

\* ------------------------------------------------------------------ MarketDataService

\* saveMarketData(data): every row is written inside one transaction; the rows
\* of this model carry the days that follow the stored ones, so every INSERT
\* adds a row.  A failing query rolls the transaction back and the error is
\* rethrown.
SaveMarketData ==
  \E data \in Batches, committed \in BOOLEAN :
     /\ Len(market_data) + Len(data) <= MaxBars
     /\ Shocks(market_data) + Shocks(data) <= MaxShocks
     /\ market_data' = IF committed THEN market_data \o data ELSE market_data
     /\ response' = [NoResponse EXCEPT !.op = "saveMarketData",
                       !.kind = IF committed THEN "returned" ELSE "thrown",
                       !.error = IF committed THEN "" ELSE "query",
                       !.count = IF committed THEN Len(data) ELSE 0]
     /\ UNCHANGED <<tables, now, call, earlier>>

\* ------------------------------------------------------------------ the three saves

IndicatorsRow(timestamp, ind) ==
  [timestamp |-> timestamp,
   realized_volatility |-> ind.realized_volatility,
   har_forecast_daily |-> ind.har_forecast_daily,
   har_forecast_weekly |-> ind.har_forecast_weekly,
   har_forecast_monthly |-> ind.har_forecast_monthly,
   garch_forecast |-> ind.garch_forecast,
   atr_14 |-> ind.atr_14,
   bollinger_band_width |-> ind.bollinger_band_width,
   parkinson_volatility |-> ind.parkinson_volatility,
   garman_klass_volatility |-> ind.garman_klass_volatility]

\* INSERT ... ON CONFLICT (symbol, timestamp) DO UPDATE
saveVolatilityIndicators(table, timestamp, ind) ==
  {r \in table : r.timestamp # timestamp} \cup {IndicatorsRow(timestamp, ind)}

HARModelRow(updated_at, model) ==
  [updated_at |-> updated_at, daily_coef |-> model.dailyCoef,
   weekly_coef |-> model.weeklyCoef, monthly_coef |-> model.monthlyCoef,
   intercept |-> model.intercept, r_squared |-> model.rSquared, mse |-> model.mse]

\* INSERT ... ON CONFLICT (symbol, updated_at) DO UPDATE
saveHARModel(table, updated_at, model) ==
  {r \in table : r.updated_at # updated_at} \cup {HARModelRow(updated_at, model)}

RiskScore(regime) ==
  IF regime = "extreme" THEN 90
  ELSE IF regime = "elevated" THEN 70
  ELSE IF regime = "normal" THEN 50
  ELSE 30

SignalRow(timestamp, signal, regime) ==
  [timestamp |-> timestamp, signal_type |-> signal.type,
   signal_strength |-> signal.strength * 100, volatility_regime |-> regime,
   recommended_action |-> signal.action, confidence_level |-> signal.strength * 100,
   risk_score |-> RiskScore(regime)]

\* the rows saveTradingSignals inserts, one plain INSERT per signal
\* every INSERT of the loop reads new Date() for itself
SignalRows(timestamps, signals, regime) ==
  Arr([i \in 1..Len(signals) |-> SignalRow(timestamps[i], signals[i], regime)])

\* the clock readings of n consecutive inserts, none before `from`
ClockReadings(n, from) ==
  {ts \in [1..n -> from..MaxClock] : \A i \in 1..(n - 1) : ts[i] <= ts[i + 1]}

\* ------------------------------------------------------------------ analyzeVolatility

\* the number of queries the three saves issue for an analysis
QueryCount(analysis) ==
  1 + (IF analysis.har_model.kind = "model" THEN 1 ELSE 0) + Len(analysis.signals)

\* analyzeVolatility(symbol): the computation, then the three saves, each
\* query awaited in turn.  `done` is the number of queries that succeed: the
\* first failing one rejects, and the catch block rethrows with the earlier
\* writes in place.  t1, t2 and ts are what new Date() reads at line 87, in
\* saveHARModel and in saveTradingSignals.
AnalyzeVolatility ==
  \E solution \in Solutions, zeroPivot \in BOOLEAN :
  \E computed \in {ComputeAnalysis(market_data, solution, zeroPivot)} :
    LET analysis == computed.analysis
        hasModel == analysis.har_model.kind = "model"
        first == IF hasModel THEN 2 ELSE 1
    IN  IF computed.status = "thrown"
        THEN /\ response' = [NoResponse EXCEPT !.op = "analyzeVolatility",
                               !.kind = "thrown", !.error = computed.error]
             /\ UNCHANGED <<market_data, tables, now, call, earlier>>
        ELSE \E t1 \in now..MaxClock :
             \E t2 \in t1..MaxClock :
             \E ts \in ClockReadings(Len(analysis.signals), t2) :
             \E done \in 0..QueryCount(analysis) :
               /\ Len(trading_signals) + Len(analysis.signals) <= MaxSignalRows
               /\ volatility_indicators' =
                    IF done >= 1
                    THEN saveVolatilityIndicators(volatility_indicators, t1,
                                                  analysis.volatility_indicators)
                    ELSE volatility_indicators
               /\ har_model_params' =
                    IF hasModel /\ done >= 2
                    THEN saveHARModel(har_model_params, t2, analysis.har_model)
                    ELSE har_model_params
               /\ trading_signals' =
                    IF done > first
                    THEN trading_signals \o
                           SubSeq(SignalRows(ts, analysis.signals, analysis.volatility_regime),
                                  1, done - first)
                    ELSE trading_signals
               /\ now' = IF done = 0 THEN t1
                         ELSE IF done < first \/ Len(analysis.signals) = 0 THEN t2
                         ELSE IF done - first < Len(analysis.signals)
                              THEN ts[done - first + 1]
                              ELSE ts[Len(analysis.signals)]
               /\ response' =
                    IF done = QueryCount(analysis)
                    THEN [NoResponse EXCEPT !.op = "analyzeVolatility",
                            !.kind = "returned", !.timestamp = t1, !.analysis = analysis]
                    ELSE [NoResponse EXCEPT !.op = "analyzeVolatility",
                            !.kind = "thrown", !.error = "query"]
               /\ UNCHANGED <<market_data, call, earlier>>

\* time passes between two requests
Tick ==
  /\ now < MaxClock
  /\ now' = now + 1
  /\ UNCHANGED <<market_data, tables, response, call, earlier>>

Next == SaveMarketData \/ AnalyzeVolatility \/ Tick

Spec == Init /\ [][Next]_vars

\* ------------------------------------------------------------------ direct calls of VolatilityModels

MaxPrices == 4
MaxSamples == 4
MaxShortBars == 3
WindowSlack == 2
MaxReference == 4
FitSpan == 9

PriceLevels == {Scale, 2 * Scale, 4 * Scale}
ReturnLevels == {-Ln2, 0, Ln2}
VolLevels == {Scale \div 10, (2 * Scale) \div 10, (3 * Scale) \div 10}

SeqsUpTo(S, n) == UNION {[1..k -> S] : k \in 0..n}

\* series whose length is within WindowSlack of a minimum window, flat but
\* for at most one value
Around(window) == (window - WindowSlack)..(window + WindowSlack)
BarSeries(window) == {Batch(n, w) : n \in Around(window), w \in 0..1}
Column(bars, field) == Arr([i \in 1..Len(bars) |-> bars[i][field]])
Spike(n, d, base, peak) == Arr([i \in 1..n |-> IF i = d THEN peak ELSE base])
ReturnSeries(window) ==
  UNION {{Spike(n, d, 0, Ln2) : d \in {0, 1, n}} : n \in Around(window)}
VolSeries(window) ==
  {Spike(n, d, Scale \div 10, (3 * Scale) \div 10) :
     n \in (window - WindowSlack)..(window + FitSpan), d \in {0, window + 1}}

AModel == [kind |-> "model", intercept |-> 0, dailyCoef |-> Scale \div 2,
           weeklyCoef |-> Scale \div 4, monthlyCoef |-> Scale \div 4,
           rSquared |-> Num(Scale \div 2), mse |-> Num(0)]

\* the two averaging periods of calculateTrend
TrendShort == 20
TrendLong == 50

\* a series of n prices: the last one c, the TrendShort - 1 before it b, and
\* every older one a
Ramp(n, a, b, c) ==
  Arr([i \in 1..n |-> IF i = n THEN c ELSE IF i > n - TrendShort THEN b ELSE a])

TrendLengths == {TrendShort - 1, TrendShort, TrendShort + 1,
                 TrendLong - 1, TrendLong, TrendLong + 1}

TrendSeries == {Ramp(n, a, b, c) : n \in TrendLengths, a, b, c \in PriceLevels}

\* the models that forecast one regressor alone
UnitModel(k) ==
  [AModel EXCEPT !.intercept = IF k = 1 THEN Scale ELSE 0,
                 !.dailyCoef = IF k = 2 THEN Scale ELSE 0,
                 !.weeklyCoef = IF k = 3 THEN Scale ELSE 0,
                 !.monthlyCoef = IF k = 4 THEN Scale ELSE 0]
Models == {NoModel, AModel} \cup {UnitModel(k) : k \in 1..4}

\* the reference set {1, 2, ..., 100}
Hundred == Arr([i \in 1..100 |-> i * Scale])

InitModels ==
  /\ market_data = <<>>
  /\ volatility_indicators = {}
  /\ har_model_params = {}
  /\ trading_signals = <<>>
  /\ now = 0
  /\ response = NoResponse
  /\ earlier = NoEarlier
  /\ \/ \E prices \in SeqsUpTo(PriceLevels, MaxPrices), type \in {"simple", "log"} :
          call = Pending("calculateReturns", <<prices, type>>)
     \/ \E returns \in SeqsUpTo(ReturnLevels, MaxSamples),
           annualizationFactor \in {1, AnnualizationFactor} :
          call = Pending("calculateRealizedVolatility", <<returns, annualizationFactor>>)
     \/ \E high \in SeqsUpTo({Scale, 2 * Scale}, MaxShortBars),
           low \in SeqsUpTo({Scale}, MaxShortBars) :
          call = Pending("calculateParkinsonVolatility", <<high, low, AnnualizationFactor>>)
     \/ \E bars \in BarSeries(RollingWindow) :
          call = Pending("calculateParkinsonVolatility",
                         <<Column(bars, "high"), Column(bars, "low"), AnnualizationFactor>>)
     \/ \E bars \in SeqsUpTo({Flat, Wide, Gap}, MaxShortBars) \cup BarSeries(RollingWindow) :
          call = Pending("calculateGarmanKlassVolatility",
                         <<Column(bars, "open"), Column(bars, "high"),
                           Column(bars, "low"), Column(bars, "close"), AnnualizationFactor>>)
     \/ \E bars \in BarSeries(AtrPeriod + 1) :
          call = Pending("calculateATR",
                         <<Column(bars, "high"), Column(bars, "low"),
                           Column(bars, "close"), AtrPeriod>>)
     \/ \E bars \in BarSeries(BollingerPeriod) :
          call = Pending("calculateBollingerBandWidth",
                         <<Column(bars, "close"), BollingerPeriod, 2>>)
     \/ \E volatilities \in VolSeries(HarLag), solution \in Solutions,
           zeroPivot \in BOOLEAN :
          call = Pending("fitHARModel", <<volatilities, solution, zeroPivot>>)
     \/ \E prices \in TrendSeries :
          call = Pending("calculateTrend", <<prices>>)
     \/ \E model \in Models, recent \in VolSeries(HarLag) :
          call = Pending("forecastHAR", <<model, recent>>)
     \/ \E returns \in ReturnSeries(GarchMinReturns),
           currentVolatility \in {Null, Num(Scale \div 5)} :
          call = Pending("forecastGARCH", <<returns, currentVolatility>>)
     \/ \E historicalVols \in (SeqsUpTo(VolLevels, MaxReference) \ {<<>>}),
           currentVol \in {Num((k * Scale) \div 20) : k \in 1..7} :
          call = Pending("identifyVolatilityRegime", <<currentVol, historicalVols>>)
     \/ \E current \in {10, 50, 100} :
          call = Pending("identifyVolatilityRegime", <<Num(current * Scale), Hundred>>)

IsPending(fn) == call.fn = fn /\ call.state = "pending"

Unchanged == UNCHANGED <<market_data, tables, now, response, earlier>>

CallCalculateReturns ==
  /\ IsPending("calculateReturns")
  /\ call' = Returned(call, calculateReturns(call.args[1], call.args[2]))
  /\ Unchanged

CallCalculateRealizedVolatility ==
  /\ IsPending("calculateRealizedVolatility")
  /\ call' = Returned(call, calculateRealizedVolatility(call.args[1], call.args[2]))
  /\ Unchanged

CallCalculateParkinsonVolatility ==
  /\ IsPending("calculateParkinsonVolatility")
  /\ call' = Returned(call, calculateParkinsonVolatility(call.args[1], call.args[2],
                                                         call.args[3]))
  /\ Unchanged

CallCalculateGarmanKlassVolatility ==
  /\ IsPending("calculateGarmanKlassVolatility")
  /\ call' = Returned(call, calculateGarmanKlassVolatility(call.args[1], call.args[2],
                              call.args[3], call.args[4], call.args[5]))
  /\ Unchanged

CallCalculateATR ==
  /\ IsPending("calculateATR")
  /\ call' = Returned(call, calculateATR(call.args[1], call.args[2], call.args[3],
                                         call.args[4]))
  /\ Unchanged

CallCalculateBollingerBandWidth ==
  /\ IsPending("calculateBollingerBandWidth")
  /\ call' = Returned(call, calculateBollingerBandWidth(call.args[1], call.args[2],
                                                        call.args[3]))
  /\ Unchanged

\* the exception of ordinaryLeastSquares is not caught in fitHARModel
CallFitHARModel ==
  /\ IsPending("fitHARModel")
  /\ \E model \in {fitHARModel(call.args[1], call.args[2], call.args[3])} :
        call' = [call EXCEPT !.ret = model,
                   !.state = IF model.kind = "throw" THEN "thrown" ELSE "returned",
                   !.ols = IF model.kind = "null" THEN <<>>
                           ELSE <<HARFeatures(call.args[1]), HARTargets(call.args[1])>>]
  /\ Unchanged

CallCalculateTrend ==
  /\ IsPending("calculateTrend")
  /\ call' = Returned(call, calculateTrend(call.args[1]))
  /\ Unchanged

CallForecastHAR ==
  /\ IsPending("forecastHAR")
  /\ call' = Returned(call, forecastHAR(call.args[1], call.args[2]))
  /\ Unchanged

CallForecastGARCH ==
  /\ IsPending("forecastGARCH")
  /\ call' = Returned(call, forecastGARCH(call.args[1], call.args[2]))
  /\ Unchanged

CallIdentifyVolatilityRegime ==
  /\ IsPending("identifyVolatilityRegime")
  /\ call' = Returned(call, identifyVolatilityRegime(call.args[1], call.args[2]))
  /\ Unchanged

NextModels ==
  \/ CallCalculateReturns
  \/ CallCalculateRealizedVolatility
  \/ CallCalculateParkinsonVolatility
  \/ CallCalculateGarmanKlassVolatility
  \/ CallCalculateATR
  \/ CallCalculateBollingerBandWidth
  \/ CallFitHARModel
  \/ CallForecastHAR
  \/ CallForecastGARCH
  \/ CallIdentifyVolatilityRegime
  \/ CallCalculateTrend

SpecModels == InitModels /\ [][NextModels]_vars

\* ------------------------------------------------------------------ properties of the direct calls

Done(fn) == call.fn = fn /\ call.state # "pending"

\* C1: fitHARModel on a rolling-volatility series of exactly 21 points
\* produces no model, and on a series of exactly 22 points it returns a model
\* (intercept, dailyCoef, weeklyCoef, monthlyCoef, rSquared, mse).
C1_FitBoundary ==
  Done("fitHARModel") =>
     /\ Len(call.args[1]) = HarLag - 1 => call.ret.kind # "model"
     /\ Len(call.args[1]) = HarLag =>
          (call.state = "returned" /\ call.ret.kind = "model")

\* the minimum window of each function, from its first guard
MinimumWindow(fn, args) ==
  CASE fn = "calculateReturns" -> 2
    [] fn = "calculateRealizedVolatility" -> 2
    [] fn = "calculateParkinsonVolatility" -> 2
    [] fn = "calculateGarmanKlassVolatility" -> 2
    [] fn = "calculateATR" -> args[4] + 1
    [] fn = "calculateBollingerBandWidth" -> args[2]
    [] fn = "fitHARModel" -> HarLag
    [] fn = "forecastHAR" -> HarLag
    [] fn = "forecastGARCH" -> GarchMinReturns
    [] OTHER -> 0

\* the series whose length the first guard of the function tests
WindowedInput(fn, args) == IF fn = "forecastHAR" THEN args[2] ELSE args[1]

TooShort(c) ==
  /\ MinimumWindow(c.fn, c.args) > 0
  /\ Len(WindowedInput(c.fn, c.args)) < MinimumWindow(c.fn, c.args)

C4_ReturnsArePairwise ==
  (Done("calculateReturns") /\ Len(call.args[1]) >= 2) =>
     LET prices == call.args[1]
         type == call.args[2]
     IN  /\ call.state = "returned"
         /\ Len(call.ret) = Len(prices) - 1
         /\ \A k \in 1..(Len(prices) - 1) :
               call.ret[k] = IF type = "log"
                             THEN LogRatio(prices[k + 1], prices[k])
                             ELSE FDiv(prices[k + 1] - prices[k], prices[k])
         /\ call.after = call.args

C4_Witness ==
  /\ Done("calculateReturns")
  /\ call.args = <<(<<Scale, 2 * Scale, 4 * Scale, Scale>>), "log">>
  /\ call.ret = <<Ln2, Ln2, -2 * Ln2>>

AllEqual(x) == \A i, j \in 1..Len(x) : x[i] = x[j]

Severity(regime) ==
  CASE regime = "low" -> 0
    [] regime = "normal" -> 1
    [] regime = "elevated" -> 2
    [] regime = "extreme" -> 3
    [] OTHER -> -1

\* C6: identifyVolatilityRegime classifies every current value against every
\* non-empty reference set into exactly one of low, normal, elevated, extreme:
\* value < P25 is low, P25 <= value < P75 normal, P75 <= value < P90
\* elevated, value >= P90 extreme; and a larger current value against the same
\* reference set never gets a less severe regime.
C6_RegimeClassification ==
  Done("identifyVolatilityRegime") =>
     LET value == call.args[1].v
         historicalVols == call.args[2]
         p25 == Quantile(historicalVols, 25)
         p75 == Quantile(historicalVols, 75)
         p90 == Quantile(historicalVols, 90)
     IN  /\ call.state = "returned"
         /\ call.ret \in {"low", "normal", "elevated", "extreme"}
         /\ call.ret = "low" <=> value < p25
         /\ call.ret = "normal" <=> (p25 <= value /\ value < p75)
         /\ call.ret = "elevated" <=> (p75 <= value /\ value < p90)
         /\ call.ret = "extreme" <=> value >= p90
         /\ \A k \in 1..7 :
              LET larger == (k * Scale) \div 20
              IN  larger >= value =>
                    Severity(identifyVolatilityRegime(Num(larger), historicalVols))
                      >= Severity(call.ret)

C6_Witness ==
  /\ Done("identifyVolatilityRegime")
  /\ Len(call.args[2]) = MaxReference
  /\ call.ret = "elevated"

\* C7: against the reference set {1, 2, ..., 100}, identifyVolatilityRegime
\* returns extreme for 100, normal for 50 and low for 10.
C7_RegimeOfHundred ==
  (Done("identifyVolatilityRegime") /\ call.args[2] = Hundred) =>
     /\ call.args[1] = Num(100 * Scale) => call.ret = "extreme"
     /\ call.args[1] = Num(50 * Scale) => call.ret = "normal"
     /\ call.args[1] = Num(10 * Scale) => call.ret = "low"

C7_Witness ==
  /\ Done("identifyVolatilityRegime")
  /\ call.args = <<Num(50 * Scale), Hundred>>
  /\ call.ret = "normal"

\* the series with every element from JavaScript index i on replaced by zero
Masked(s, i) == Arr([k \in 1..Len(s) |-> IF k <= i THEN s[k] ELSE 0])

\* C11: for a series vol of length L >= 22 fitHARModel builds one regression
\* row for each index i in 22..L-1 (L - 22 rows) with features
\* [1, vol[i-1], mean(vol[i-5..i-1]), mean(vol[i-22..i-1])] and target vol[i];
\* no feature of row i reads vol[j] for j >= i, and the input series is not
\* modified.
C11_FitRows ==
  (Done("fitHARModel") /\ Len(call.args[1]) >= HarLag) =>
     LET vol == call.args[1]
         L == Len(vol)
         features == call.ols[1]
         targets == call.ols[2]
     IN  /\ Len(features) = L - HarLag
         /\ Len(targets) = L - HarLag
         /\ \A i \in HarLag..(L - 1) :
               LET row == features[i - HarLag + 1]
               IN  /\ row = <<Scale,
                              vol[i],
                              Mean(SubSeq(vol, i - 4, i)),
                              Mean(SubSeq(vol, i - 21, i))>>
                   /\ targets[i - HarLag + 1] = vol[i + 1]
                   /\ row = HARRow(Masked(vol, i), i)
         /\ call.after[1] = vol

C11_Witness ==
  /\ Done("fitHARModel")
  /\ call.state = "returned"
  /\ call.ret.kind = "model"
  /\ Len(call.ols[1]) = FitSpan
  /\ call.ols[1][1] # call.ols[1][2]
  /\ call.ols[2][1] # call.ols[2][2]

\* C12: given a fitted model and a series RV of length L >= 22, forecastHAR
\* returns intercept + dailyCoef * RV[last] + weeklyCoef * mean of the last 5
\* + monthlyCoef * mean of the last 22, and these regressors are the feature
\* row the fit would build for the next index i = L.
C12_ForecastUsesNextRow ==
  (Done("forecastHAR") /\ call.args[1].kind = "model"
                       /\ Len(call.args[2]) >= HarLag) =>
     LET model == call.args[1]
         RV == call.args[2]
         L == Len(RV)
         coefficients == <<model.intercept, model.dailyCoef,
                           model.weeklyCoef, model.monthlyCoef>>
     IN  /\ call.ret = Num(model.intercept
                             + FMul(model.dailyCoef, RV[L])
                             + FMul(model.weeklyCoef, Mean(SubSeq(RV, L - 4, L)))
                             + FMul(model.monthlyCoef, Mean(SubSeq(RV, L - 21, L))))
         /\ call.ret = Num(DotProduct(HARRow(RV, L), coefficients))

C12_Witness ==
  /\ Done("forecastHAR")
  /\ call.args[1] = UnitModel(3)
  /\ Len(call.args[2]) > HarLag
  /\ IsNum(call.ret)
  /\ call.ret # Num(call.args[2][Len(call.args[2])])
  /\ call.ret # Num(Mean(SliceLast(call.args[2], HarLag)))

\* C13: forecastGARCH produces a forecast exactly when it is given at least
\* 30 returns; the forecast is sqrt(omega + alpha * lastReturn^2
\* + beta * currentVolatility^2) with omega = 1e-6, alpha = 0.08, beta = 0.90
\* (here: the integer square root of that sum taken at Scale^2), it is
\* strictly positive, and it is the same for every series that ends with the
\* same return.
C13_GarchForecast ==
  Done("forecastGARCH") =>
     LET returns == call.args[1]
         currentVolatility == ToNumber(call.args[2])
         n == Len(returns)
         variance == (Scale * Scale) \div 1000000
                       + (8 * returns[n] * returns[n]) \div 100
                       + 90 * ((currentVolatility * currentVolatility) \div 100)
     IN  /\ IsNum(call.ret) <=> n >= GarchMinReturns
         /\ n >= GarchMinReturns =>
               /\ call.ret.v * call.ret.v <= variance
               /\ variance < (call.ret.v + 1) * (call.ret.v + 1)
               /\ call.ret.v > 0
               /\ \A other \in ReturnSeries(GarchMinReturns) :
                     (Len(other) >= GarchMinReturns /\ other[Len(other)] = returns[n])
                        => forecastGARCH(other, call.args[2]) = call.ret

C13_Witness ==
  /\ Done("forecastGARCH")
  /\ Len(call.args[1]) = GarchMinReturns
  /\ call.args[1][1] # 0
  /\ call.args[1][GarchMinReturns] = 0
  /\ call.args[2] = Null
  /\ call.ret = Num(Scale \div 1000)

\* C14: when X'X is singular (fewer observations than features, identical
\* rows, a constant series) ordinaryLeastSquares fails and returns no
\* coefficient vector; a vector it returns has one entry per feature.
C14_SingularAlwaysFails ==
  (Done("fitHARModel") /\ Len(call.args[1]) >= HarLag) =>
     /\ ~Invertible(call.ols[1]) => call.state = "thrown"
     /\ call.state = "returned" =>
           Len(<<call.ret.intercept, call.ret.dailyCoef,
                 call.ret.weeklyCoef, call.ret.monthlyCoef>>) = Len(HARRow(call.args[1], HarLag))

\* C15: each range/price estimator returns a number exactly when its length
\* precondition holds: Parkinson needs high and low of equal length >= 2,
\* Garman-Klass >= 2 bars, ATR >= period + 1 bars, the Bollinger band width
\* >= period closes, of which it reads only the trailing `period`.
C15_NumberIffLongEnough ==
  /\ Done("calculateParkinsonVolatility") =>
        (IsNum(call.ret) <=>
           (Len(call.args[1]) = Len(call.args[2]) /\ Len(call.args[1]) >= 2))
  /\ Done("calculateGarmanKlassVolatility") =>
        (IsNum(call.ret) <=> Len(call.args[1]) >= 2)
  /\ Done("calculateATR") =>
        (IsNum(call.ret) <=> Len(call.args[1]) >= call.args[4] + 1)
  /\ Done("calculateBollingerBandWidth") =>
        /\ IsNum(call.ret) <=> Len(call.args[1]) >= call.args[2]
        /\ Len(call.args[1]) >= call.args[2] =>
              call.ret = calculateBollingerBandWidth(
                            SubSeq(call.args[1], Len(call.args[1]) - call.args[2] + 1,
                                   Len(call.args[1])),
                            call.args[2], call.args[3])

\* C16: calculateGarmanKlassVolatility never returns NaN (a negative
\* Garman-Klass term is a domain error), and analyzeVolatility never returns
\* or stores a NaN garman_klass_volatility.
C16_GarmanKlassNeverNaN ==
  /\ Done("calculateGarmanKlassVolatility") => call.ret # NaN
  /\ response.analysis.volatility_indicators.garman_klass_volatility # NaN
  /\ \A row \in volatility_indicators : row.garman_klass_volatility # NaN

\* C17: calculateGarmanKlassVolatility returns sqrt(mean(term)) * sqrt(n),
\* the mean taken over the terms of bars 1..N-1 before the square root; bar 0
\* does not contribute.
C17_RootOfMeanTerm ==
  (Done("calculateGarmanKlassVolatility") /\ IsNum(call.ret)) =>
     LET open == call.args[1]
         high == call.args[2]
         low == call.args[3]
         close == call.args[4]
         terms == Arr([i \in 1..(Len(open) - 1) |->
                         GKTerm(open[i + 1], high[i + 1], low[i + 1], close[i + 1])])
     IN  call.ret = Num(FMul(SqrtOfSq(Mean(terms)), FSqrt(call.args[5] * Scale)))

\* C26: whenever fitHARModel calls ordinaryLeastSquares, the design matrix
\* has at least as many rows as features (4), for every series length that
\* passes the length check of fitHARModel.
C26_EnoughRowsForFit ==
  (Done("fitHARModel") /\ Len(call.args[1]) >= HarLag) =>
     /\ Len(call.ols) = 2
     /\ Len(call.ols[1]) >= Len(HARRow(call.args[1], HarLag))

\* ------------------------------------------------------------------ repeated calls of the signal generator

Regimes == {"low", "normal", "extreme"}
Trends == {"up", "down"}

VolatilityDataInputs ==
  [realized_volatility : {Num(0), Num((2 * Scale) \div 10)},
   har_forecast : {Null, Num((18 * Scale) \div 100), Num(Scale \div 10)},
   regime : Regimes,
   bollinger_width : {Num((15 * Scale) \div 100), Num((15 * Scale) \div 100 + 1)},
   historical_avg_width : {Scale \div 10}]

PriceDataInputs == [trend : Trends, current_price : {Scale}]

TrendInputs == {Spike(BollingerPeriod, d, Scale, 2 * Scale) : d \in {0, BollingerPeriod}}

\* a caller evaluates the rules on a volatility record and a price record
GenerateVolatilitySignals ==
  \E volatilityData \in VolatilityDataInputs, priceData \in PriceDataInputs :
  \E signals \in {generateVolatilitySignals(volatilityData, priceData)} :
     /\ call' = Returned(Pending("generateVolatilitySignals", <<volatilityData, priceData>>),
                         signals)
     /\ earlier' = IF earlier = NoEarlier
                   THEN [args |-> <<volatilityData, priceData>>, ret |-> signals,
                         others |-> FALSE]
                   ELSE earlier
     /\ UNCHANGED <<market_data, tables, now, response>>

\* a caller classifies a trend between two evaluations of the rules
CalculateTrend ==
  \E prices \in TrendInputs :
     /\ call' = Returned(Pending("calculateTrend", <<prices>>), calculateTrend(prices))
     /\ earlier' = IF earlier = NoEarlier THEN earlier ELSE [earlier EXCEPT !.others = TRUE]
     /\ UNCHANGED <<market_data, tables, now, response>>

NextSignals == GenerateVolatilitySignals \/ CalculateTrend

SpecSignals == Init /\ [][NextSignals]_vars

\* the rules in their fixed order: type, action, strength
RuleSet ==
  <<[type |-> "volatility_mean_reversion", action |-> "prepare_to_buy",
     strength |-> (8 * Scale) \div 10],
    [type |-> "low_vol_trend", action |-> "buy", strength |-> (7 * Scale) \div 10],
    [type |-> "volatility_breakout", action |-> "wait", strength |-> (6 * Scale) \div 10],
    [type |-> "har_divergence", action |-> "hedge", strength |-> (65 * Scale) \div 100]>>

\* whether the condition of rule r holds, null read as 0 by the comparisons
RuleHolds(r, volatilityData, priceData) ==
  LET harForecast == ToNumber(volatilityData.har_forecast)
      realizedVolatility == ToNumber(volatilityData.realized_volatility)
  IN  CASE r = 1 -> volatilityData.regime = "extreme" /\ harForecast < realizedVolatility
        [] r = 2 -> volatilityData.regime = "low" /\ priceData.trend = "up"
        [] r = 3 -> 10 * ToNumber(volatilityData.bollinger_width)
                      > 15 * volatilityData.historical_avg_width
        [] r = 4 -> 10 * Abs(harForecast - realizedVolatility) > 2 * realizedVolatility

\* C8: generateVolatilitySignals returns exactly the sub-list of the ordered
\* rule set (mean reversion, low-vol trend, breakout, HAR divergence) whose
\* conditions hold: each type at most once, in rule order, with the rule's
\* action and strength, and every strength within [0, 1].
C8_SignalsAreTheFiredRules ==
  Done("generateVolatilitySignals") =>
     LET volatilityData == call.args[1]
         priceData == call.args[2]
         signals == call.ret
         fired == {r \in 1..4 : RuleHolds(r, volatilityData, priceData)}
     IN  /\ call.state = "returned"
         /\ Len(signals) = Cardinality(fired)
         /\ \A i \in 1..Len(signals) :
               \E r \in fired :
                  /\ Cardinality({q \in fired : q < r}) = i - 1
                  /\ signals[i].type = RuleSet[r].type
                  /\ signals[i].action = RuleSet[r].action
                  /\ signals[i].strength = RuleSet[r].strength
                  /\ 0 <= signals[i].strength /\ signals[i].strength <= Scale

C8_Witness ==
  /\ Done("generateVolatilitySignals")
  /\ Len(call.ret) = 3
  /\ call.ret[1].type = "volatility_mean_reversion"
  /\ call.ret[2].type = "volatility_breakout"
  /\ call.ret[3].type = "har_divergence"

FlatSeries(x, level) ==
  Len(x) >= RollingWindow /\ \A i \in 1..Len(x) : x[i] = level

TrendKinds == {"up", "down", "sideways"}

\* the trends calculateTrend returns on the series of TrendSeries of length n
TrendsAt(n) == {calculateTrend(prices) : prices \in {p \in TrendSeries : Len(p) = n}}

\* the result calculateTrend is to give: 'unknown' below 20 prices, else up /
\* down / sideways from the last price, the average of the last 20 and sma50
TrendRule(prices, sma50) ==
  LET n == Len(prices)
      price == prices[n]
      sma20 == Sum(SubSeq(prices, n - 19, n)) \div 20
  IN  IF price > sma20 /\ sma20 > sma50 THEN "up"
      ELSE IF price < sma20 /\ sma20 < sma50 THEN "down"
      ELSE "sideways"

\* C19 as stated: calculateTrend never fails, returns 'unknown' below 20
\* prices and otherwise the trend of the rule, SMA50 being the 50-period
\* average from 50 prices on; each of up, down and sideways is returned for
\* some series of every length >= 20.
C19_EveryTrendAtEveryLength ==
  Done("calculateTrend") =>
     LET prices == call.args[1]
         n == Len(prices)
     IN  /\ call.state = "returned"
         /\ n < 20 => call.ret = "unknown"
         /\ n >= 50 => call.ret = TrendRule(prices, Sum(SubSeq(prices, n - 49, n)) \div 50)
         /\ n >= 20 => (call.ret \in TrendKinds /\ TrendsAt(n) = TrendKinds)

\* C19: calculateTrend never fails, returns 'unknown' below 20 prices and
\* otherwise the trend of the rule, where SMA50 is the 50-period average
\* from 50 prices on and SMA20 itself below; from 20 to 49 prices the
\* result is therefore always 'sideways', and each of up, down and sideways
\* is returned for some series of every length >= 50.
C19_TrendRule ==
  Done("calculateTrend") =>
     LET prices == call.args[1]
         n == Len(prices)
     IN  /\ call.state = "returned"
         /\ n < 20 => call.ret = "unknown"
         /\ n >= 50 => call.ret = TrendRule(prices, Sum(SubSeq(prices, n - 49, n)) \div 50)
         /\ (n >= 20 /\ n < 50) =>
               /\ call.ret = TrendRule(prices, Sum(SubSeq(prices, n - 19, n)) \div 20)
               /\ call.ret = "sideways"
               /\ TrendsAt(n) = {"sideways"}
         /\ n >= 50 => TrendsAt(n) = TrendKinds

C19_Witness ==
  /\ Done("calculateTrend")
  /\ Len(call.args[1]) = TrendLong - 1
  /\ call.args[1] = Ramp(TrendLong - 1, Scale, 2 * Scale, 4 * Scale)
  /\ call.ret = "sideways"

\* ------------------------------------------------------------------ properties of analyzeVolatility

AnalysisReturned == response.op = "analyzeVolatility" /\ response.kind = "returned"

IndicatorFields ==
  {"realized_volatility", "har_forecast_daily", "har_forecast_weekly",
   "har_forecast_monthly", "garch_forecast", "atr_14", "bollinger_band_width",
   "parkinson_volatility", "garman_klass_volatility"}

\* C2: whenever analyzeVolatility returns without throwing, every field of
\* volatility_indicators holds a value: none is null, for any number of
\* stored bars.
C2_SnapshotIsFull ==
  AnalysisReturned =>
     \A f \in IndicatorFields : response.analysis.volatility_indicators[f] # Null

\* C10: in every snapshot analyzeVolatility returns, the weekly HAR forecast
\* is the daily one times the square root of 5 and the monthly one the daily
\* one times the square root of 22, and the three are all set or all null.
C10_ForecastsScaleTogether ==
  AnalysisReturned =>
     LET ind == response.analysis.volatility_indicators
         daily == ind.har_forecast_daily
     IN  \/ /\ daily = Null
            /\ ind.har_forecast_weekly = Null
            /\ ind.har_forecast_monthly = Null
         \/ /\ IsNum(daily)
            /\ ind.har_forecast_weekly = Num((daily.v * ISqrt(5 * Scale * Scale)) \div Scale)
            /\ ind.har_forecast_monthly = Num((daily.v * ISqrt(22 * Scale * Scale)) \div Scale)

C10_Witness ==
  /\ AnalysisReturned
  /\ IsNum(response.analysis.volatility_indicators.har_forecast_daily)
  /\ response.analysis.volatility_indicators.har_forecast_daily.v > 0
  /\ response.analysis.volatility_indicators.har_forecast_weekly.v
       > response.analysis.volatility_indicators.har_forecast_daily.v

\* C20: after any sequence of analysis runs each of the tables
\* volatility_indicators, har_model_params and trading_signals holds at most
\* one row per (symbol, timestamp).
C20_OneRowPerTimestamp ==
  /\ \A r, q \in volatility_indicators : r.timestamp = q.timestamp => r = q
  /\ \A r, q \in har_model_params : r.updated_at = q.updated_at => r = q
  /\ \A i, j \in 1..Len(trading_signals) :
        trading_signals[i].timestamp = trading_signals[j].timestamp => i = j

SignalTypes(analysis) == {analysis.signals[k].type : k \in 1..Len(analysis.signals)}

\* C23: when a run has no HAR forecast (har_forecast is null), the signals
\* it returns contain neither volatility_mean_reversion nor har_divergence.
C23_NoForecastNoForecastSignals ==
  (AnalysisReturned /\ response.analysis.volatility_indicators.har_forecast_daily = Null) =>
     /\ "volatility_mean_reversion" \notin SignalTypes(response.analysis)
     /\ "har_divergence" \notin SignalTypes(response.analysis)

\* the log returns of the stored closes analyzeVolatility reads
StoredReturns ==
  LET marketData == getLatestData(market_data, LatestLimit)
  IN  calculateReturns(Arr([i \in 1..Len(marketData) |-> marketData[i].close]), "log")

\* the realized volatility of every window of RollingWindow returns, with
\* the annualization factor f
RollingWith(returns, f) ==
  Arr([j \in 1..(Len(returns) - RollingWindow + 1) |->
         calculateRealizedVolatility(SubSeq(returns, j, j + RollingWindow - 1), f).v])

\* C24: in analyzeVolatility the current volatility handed to
\* identifyVolatilityRegime and every value of the reference series handed
\* to it are computed with one and the same annualization factor.
C24_RegimeOnOneScale ==
  AnalysisReturned =>
     \E f \in {1, AnnualizationFactor} :
        /\ response.analysis.volatility_indicators.realized_volatility
             = calculateRealizedVolatility(StoredReturns, f)
        /\ calculateRollingVolatilities(StoredReturns, RollingWindow)
             = RollingWith(StoredReturns, f)

\* C25: in analyzeVolatility the series the HAR model is fitted and forecast
\* on has the annualization of realized_volatility, the value the signal
\* rules compare the HAR forecast with.
C25_ForecastOnScaleOfRealized ==
  (AnalysisReturned /\ IsNum(response.analysis.volatility_indicators.har_forecast_daily)) =>
     \E f \in {1, AnnualizationFactor} :
     \E fitted \in {RollingWith(StoredReturns, f)} :
        /\ response.analysis.volatility_indicators.realized_volatility
             = calculateRealizedVolatility(StoredReturns, f)
        /\ \E solution \in Solutions, zeroPivot \in BOOLEAN :
              /\ response.analysis.har_model = fitHARModel(fitted, solution, zeroPivot)
              /\ response.analysis.volatility_indicators.har_forecast_daily
                   = forecastHAR(response.analysis.har_model, fitted)

\* C27: for every number of stored bars that passes the minimum-data guard
\* of analyzeVolatility (30 or more), garch_forecast in the returned
\* snapshot is a number and never null.
C27_GarchForecastIsSet ==
  AnalysisReturned =>
     /\ Len(market_data) >= MinBars
     /\ IsNum(response.analysis.volatility_indicators.garch_forecast)

\* C28: the persistence stage of analyzeVolatility is all-or-nothing: a run
\* that throws leaves no row it wrote in volatility_indicators,
\* har_model_params or trading_signals.
C28_ThrownRunWritesNothing ==
  [][(response'.op = "analyzeVolatility" /\ response'.kind = "thrown")
       => tables' = tables]_vars

\* ------------------------------------------------------------------ saveMarketData, query by query

\* a saveMarketData(data) call in flight: where it stands (pc), the rows its
\* open transaction has written (pending), the table as it was when the
\* call began (before), what the catch block caught (caught), and how often
\* the client has been released
SaveCall(data, pc) ==
  [fn |-> "saveMarketData", args |-> <<data>>, state |-> "pending", ret |-> Null,
   after |-> <<data>>, ols |-> <<>>,
   pc |-> pc, pending |-> <<>>, before |-> market_data, caught |-> "",
   acquired |-> pc # "failed", released |-> 0]

InSave(pc) == call.fn = "saveMarketData" /\ call.state = "pending" /\ call.pc = pc

\* what the table holds once the transaction is gone without a commit
RolledBackNothingUndone(before, pending) == before \o pending

RolledBack(before, pending) == before

\* line 168: pool.connect() gives a client or rejects
SaveConnect ==
  /\ call.state # "pending"
  /\ \E data \in Batches, ok \in BOOLEAN :
        /\ Len(market_data) + Len(data) <= MaxBars
        /\ Shocks(market_data) + Shocks(data) <= MaxShocks
        /\ call' = SaveCall(data, IF ok THEN "begin" ELSE "failed")
  /\ response' = NoResponse
  /\ UNCHANGED market_data
  /\ UNCHANGED <<tables, now, earlier>>

\* line 170: BEGIN
SaveBegin ==
  /\ InSave("begin")
  /\ \E ok \in BOOLEAN :
        call' = IF ok THEN [call EXCEPT !.pc = "upsert"]
                ELSE [call EXCEPT !.pc = "catch", !.caught = "BEGIN"]
  /\ UNCHANGED <<market_data, response>>
  /\ UNCHANGED <<tables, now, earlier>>

\* lines 172-179: the upsert of the next item; the row stays inside the
\* transaction
SaveUpsert ==
  /\ InSave("upsert")
  /\ Len(call.pending) < Len(call.args[1])
  /\ \E ok \in BOOLEAN :
        call' = IF ok
                THEN [call EXCEPT !.pending = Append(@, call.args[1][Len(@) + 1])]
                ELSE [call EXCEPT !.pc = "catch", !.caught = "INSERT"]
  /\ UNCHANGED <<market_data, response>>
  /\ UNCHANGED <<tables, now, earlier>>

\* lines 181-182: COMMIT makes the rows of the transaction visible
SaveCommit ==
  /\ InSave("upsert")
  /\ Len(call.pending) = Len(call.args[1])
  /\ \E ok \in BOOLEAN :
        IF ok
        THEN /\ market_data' = market_data \o call.pending
             /\ call' = [call EXCEPT !.pc = "finally", !.pending = <<>>,
                           !.ret = [success |-> TRUE, count |-> Len(call.args[1])]]
        ELSE /\ market_data' = market_data
             /\ call' = [call EXCEPT !.pc = "catch", !.caught = "COMMIT"]
  /\ UNCHANGED response
  /\ UNCHANGED <<tables, now, earlier>>

\* lines 183-185: ROLLBACK, then rethrow; when the ROLLBACK itself is
\* rejected its error is the one that leaves the catch block, and the
\* server drops the transaction with the broken session
SaveRollback ==
  /\ InSave("catch")
  /\ \E ok \in BOOLEAN :
        call' = [call EXCEPT !.pc = "finally", !.pending = <<>>,
                   !.caught = IF ok THEN @ ELSE "ROLLBACK"]
  /\ market_data' = RolledBack(market_data, call.pending)
  /\ UNCHANGED response
  /\ UNCHANGED <<tables, now, earlier>>

\* lines 186-188: the finally block releases the client; then the call
\* returns or throws.  A rejected pool.connect() leaves the function at once.
SaveRelease ==
  /\ InSave("finally") \/ InSave("failed")
  /\ call' = [call EXCEPT !.state = IF call.pc = "finally" /\ call.caught = ""
                                    THEN "returned" ELSE "thrown",
                !.pc = "done",
                !.released = IF call.acquired THEN @ + 1 ELSE @]
  /\ response' = IF call.pc = "finally" /\ call.caught = ""
                 THEN [NoResponse EXCEPT !.op = "saveMarketData", !.kind = "returned",
                         !.count = call.ret.count]
                 ELSE [NoResponse EXCEPT !.op = "saveMarketData", !.kind = "thrown",
                         !.error = IF call.pc = "failed" THEN "connect" ELSE call.caught]
  /\ UNCHANGED market_data
  /\ UNCHANGED <<tables, now, earlier>>

NextSave ==
  \/ SaveConnect
  \/ SaveBegin
  \/ SaveUpsert
  \/ SaveCommit
  \/ SaveRollback
  \/ SaveRelease

SpecSave == Init /\ [][NextSave]_vars

MaxInFlight == 3

\* the component's state after the first render (the useState initial
\* values), before its effect has run; tasks are the async calls that are
\* awaiting a reply
AppConstructed ==
  [fn |-> "App", args |-> <<>>, state |-> "pending", ret |-> Null, after |-> <<>>,
   ols |-> <<>>,
   mounted |-> FALSE, marketData |-> FALSE, loading |-> TRUE, error |-> "",
   isRefreshing |-> FALSE, apiHealth |-> FALSE, tasks |-> <<>>]

InitApp ==
  /\ market_data = <<>>
  /\ volatility_indicators = {}
  /\ har_model_params = {}
  /\ trading_signals = <<>>
  /\ now = 0
  /\ response = NoResponse
  /\ earlier = NoEarlier
  /\ call = AppConstructed

Without(tasks, i) == SubSeq(tasks, 1, i - 1) \o SubSeq(tasks, i + 1, Len(tasks))

\* which of the three screens the component renders
Screen(app) ==
  IF app.loading /\ ~app.marketData THEN "loading"
  ELSE IF app.error # "" /\ ~app.marketData THEN "error"
  ELSE "dashboard"

\* fetchData up to its first await: the loader, the error, the health request
fetchDataStarts(app, showLoader, manual) ==
  [app EXCEPT !.loading = IF showLoader THEN TRUE ELSE @,
              !.error = "",
              !.tasks = Append(@, [op |-> "fetchData", pc |-> "checkHealth", manual |-> manual])]

\* the finally block of fetchData, for the call that is task i
fetchDataFinally(app, i) ==
  [app EXCEPT !.loading = FALSE, !.isRefreshing = FALSE, !.tasks = Without(@, i)]

\* the effect of the first render: fetchData() and the 5-minute interval
AppMount ==
  /\ call.fn = "App" /\ ~call.mounted
  /\ call' = fetchDataStarts([call EXCEPT !.mounted = TRUE], TRUE, FALSE)
  /\ UNCHANGED <<market_data, tables, now, response, earlier>>

\* the interval fires: fetchData(false)
AutoRefresh ==
  /\ call.fn = "App" /\ call.mounted
  /\ Len(call.tasks) < MaxInFlight
  /\ call' = fetchDataStarts(call, FALSE, FALSE)
  /\ UNCHANGED <<market_data, tables, now, response, earlier>>

\* the Retry button of the error screen: fetchData()
Retry ==
  /\ call.fn = "App" /\ call.mounted
  /\ Screen(call) = "error"
  /\ Len(call.tasks) < MaxInFlight
  /\ call' = fetchDataStarts(call, TRUE, FALSE)
  /\ UNCHANGED <<market_data, tables, now, response, earlier>>

\* a click on the Refresh button, which is disabled while isRefreshing:
\* handleRefresh up to its first await
handleRefresh ==
  /\ call.fn = "App" /\ call.mounted
  /\ Screen(call) = "dashboard"
  /\ ~call.isRefreshing
  /\ Len(call.tasks) < MaxInFlight
  /\ call' = [call EXCEPT !.isRefreshing = TRUE,
                !.tasks = Append(@, [op |-> "handleRefresh", pc |-> "triggerUpdate",
                                   manual |-> TRUE])]
  /\ UNCHANGED <<market_data, tables, now, response, earlier>>

\* triggerUpdate settles: handleRefresh goes on to fetchData(false), or its
\* catch block runs
TriggerUpdateSettles ==
  /\ call.fn = "App"
  /\ \E i \in 1..Len(call.tasks), ok \in BOOLEAN :
        /\ call.tasks[i].op = "handleRefresh"
        /\ call' = IF ok
                   THEN fetchDataStarts([call EXCEPT !.tasks = Without(@, i)], FALSE, TRUE)
                   ELSE [call EXCEPT !.error = "Failed to refresh data",
                           !.isRefreshing = FALSE, !.tasks = Without(@, i)]
  /\ UNCHANGED <<market_data, tables, now, response, earlier>>

\* checkHealth settles (it never rejects): an unhealthy API throws into the
\* catch block, then the finally block runs
CheckHealthSettles ==
  /\ call.fn = "App"
  /\ \E i \in 1..Len(call.tasks), health \in BOOLEAN :
        /\ call.tasks[i].op = "fetchData" /\ call.tasks[i].pc = "checkHealth"
        /\ call' = IF health
                   THEN [call EXCEPT !.apiHealth = TRUE, !.tasks[i].pc = "all"]
                   ELSE fetchDataFinally(
                          [call EXCEPT !.apiHealth = FALSE,
                             !.error = "API is not responding. Please check the backend service."],
                          i)
  /\ UNCHANGED <<market_data, tables, now, response, earlier>>

\* the two data requests settle: the data is stored, or the catch block
\* runs; then the finally block
AnalysisSettles ==
  /\ call.fn = "App"
  /\ \E i \in 1..Len(call.tasks), ok \in BOOLEAN :
        /\ call.tasks[i].op = "fetchData" /\ call.tasks[i].pc = "all"
        /\ call' = fetchDataFinally(
                     IF ok THEN [call EXCEPT !.marketData = TRUE]
                     ELSE [call EXCEPT !.error = "Failed to fetch market data"],
                     i)
  /\ UNCHANGED <<market_data, tables, now, response, earlier>>

NextApp ==
  \/ AppMount
  \/ AutoRefresh
  \/ Retry
  \/ handleRefresh
  \/ TriggerUpdateSettles
  \/ CheckHealthSettles
  \/ AnalysisSettles

SpecApp == InitApp /\ [][NextApp]_vars

\* a handleRefresh call is awaiting triggerUpdate, or the fetchData it
\* issued has not settled
ManualRefreshInFlight ==
  \E i \in 1..Len(call.tasks) : call.tasks[i].manual

\* C30: while a manual refresh is in flight, isRefreshing stays true (and
\* with it the Refresh button stays disabled), whatever the auto-refresh
\* fetches do.
C30_RefreshingWhileInFlight ==
  (call.fn = "App" /\ ManualRefreshInFlight) => call.isRefreshing

\* C30, second half: once nothing is in flight, isRefreshing and loading
\* are both false.
C30_IdleIsQuiet ==
  (call.fn = "App" /\ call.mounted /\ call.tasks = <<>>) =>
     ~call.isRefreshing /\ ~call.loading

\* ------------------------------------------------------------------ two analyzeVolatility calls at once

\* In this specification every table is kept by symbol: market_data[s] are
\* the rows WHERE symbol = s, and so for the three tables the saves write.
Symbols == <<"SPY", "QQQ">>

\* n batches of stored days, the last of them with its shock when `shock`
Stored(n, shock) ==
  Batch((n - 1) * BatchLen, 0) \o Batch(BatchLen, IF shock THEN ShockDay ELSE 0)

\* the bars a symbol may have: too few, enough with a shock, and enough
\* for a fit
PairStores ==
  {Stored((MinBars \div BatchLen) - 1, FALSE), Stored(MinBars \div BatchLen, TRUE),
   Stored(MaxBars \div BatchLen, TRUE)}

\* where the local variables of invocation i live: each call of an async
\* function has its own
SlotOfService(i) == 1

Slot(i) == i

\* invocation i: analyzeVolatility(Symbols[i]); pc is the await it stands
\* at, stamp the new Date() read for the query it awaits, k the signals
\* inserted so far, result what it returned or threw
Invocation(symbol) ==
  [symbol |-> symbol, pc |-> "idle", stamp |-> 0, k |-> 0, result |-> NoResponse]

PairCall ==
  [fn |-> "analyzeVolatility", args |-> Symbols, state |-> "pending", ret |-> Null,
   after |-> Symbols, ols |-> <<>>,
   inv |-> [i \in 1..Len(Symbols) |-> Invocation(Symbols[i])],
   analysis |-> [i \in 1..Len(Symbols) |-> NoAnalysis]]

InitPair ==
  /\ market_data \in [{Symbols[i] : i \in 1..Len(Symbols)} -> PairStores]
  /\ volatility_indicators = [s \in {Symbols[i] : i \in 1..Len(Symbols)} |-> {}]
  /\ har_model_params = [s \in {Symbols[i] : i \in 1..Len(Symbols)} |-> {}]
  /\ trading_signals = [s \in {Symbols[i] : i \in 1..Len(Symbols)} |-> <<>>]
  /\ now = 0
  /\ response = NoResponse
  /\ earlier = NoEarlier
  /\ call = PairCall

At(i, pc) == call.fn = "analyzeVolatility" /\ call.inv[i].pc = pc

\* the await an invocation reaches after saveVolatilityIndicators, and
\* after saveHARModel (which returns at once when there is no model)
AfterModel(analysis) == IF Len(analysis.signals) > 0 THEN "signals" ELSE "return"
AfterIndicators(analysis) ==
  IF analysis.har_model.kind = "model" THEN "model" ELSE AfterModel(analysis)

\* a rejected query: the catch block rethrows
Rejected(i) ==
  /\ call' = [call EXCEPT !.inv[i].pc = "thrown",
                !.inv[i].result = [NoResponse EXCEPT !.op = "analyzeVolatility",
                                     !.kind = "thrown", !.error = "query"]]
  /\ response' = [NoResponse EXCEPT !.op = "analyzeVolatility",
                    !.kind = "thrown", !.error = "query"]

\* line 16: the invocation starts and awaits getLatestData
AnalyzeBegins(i) ==
  /\ At(i, "idle")
  /\ call' = [call EXCEPT !.inv[i].pc = "read"]
  /\ UNCHANGED <<market_data, tables, now, response, earlier>>

\* lines 16-112: the rows of the symbol arrive; the guard, the estimators,
\* the fit and the signals run without a break; the first save is issued
AnalyzeComputes(i) ==
  /\ At(i, "read")
  /\ \E solution \in Solutions, zeroPivot \in BOOLEAN :
     \E computed \in {ComputeAnalysis(market_data[call.inv[i].symbol], solution, zeroPivot)} :
        IF computed.status = "thrown"
        THEN /\ call' = [call EXCEPT !.inv[i].pc = "thrown",
                           !.inv[i].result = [NoResponse EXCEPT !.op = "analyzeVolatility",
                                                !.kind = "thrown", !.error = computed.error]]
             /\ response' = [NoResponse EXCEPT !.op = "analyzeVolatility",
                               !.kind = "thrown", !.error = computed.error]
        ELSE /\ call' = [call EXCEPT !.inv[i].pc = "indicators", !.inv[i].stamp = now,
                           !.analysis[Slot(i)] = computed.analysis]
             /\ UNCHANGED response
  /\ UNCHANGED <<market_data, tables, now, earlier>>

\* line 112: the upsert of saveVolatilityIndicators settles
IndicatorsSaved(i) ==
  /\ At(i, "indicators")
  /\ \E ok \in BOOLEAN, analysis \in {call.analysis[Slot(i)]} :
        IF ok
        THEN /\ volatility_indicators' =
                  [volatility_indicators EXCEPT ![call.inv[i].symbol] =
                     saveVolatilityIndicators(@, call.inv[i].stamp,
                                              analysis.volatility_indicators)]
             /\ call' = [call EXCEPT !.inv[i].pc = AfterIndicators(analysis),
                           !.inv[i].stamp = now]
             /\ UNCHANGED response
        ELSE /\ Rejected(i)
             /\ UNCHANGED volatility_indicators
  /\ UNCHANGED <<market_data, har_model_params, trading_signals, now, earlier>>

\* line 113: the upsert of saveHARModel settles
ModelSaved(i) ==
  /\ At(i, "model")
  /\ \E ok \in BOOLEAN, analysis \in {call.analysis[Slot(i)]} :
        IF ok
        THEN /\ har_model_params' =
                  [har_model_params EXCEPT ![call.inv[i].symbol] =
                     saveHARModel(@, call.inv[i].stamp, analysis.har_model)]
             /\ call' = [call EXCEPT !.inv[i].pc = AfterModel(analysis),
                           !.inv[i].stamp = now]
             /\ UNCHANGED response
        ELSE /\ Rejected(i)
             /\ UNCHANGED har_model_params
  /\ UNCHANGED <<market_data, volatility_indicators, trading_signals, now, earlier>>

\* line 114: one INSERT of the loop of saveTradingSignals settles
SignalInserted(i) ==
  /\ At(i, "signals")
  /\ \E ok \in BOOLEAN, analysis \in {call.analysis[Slot(i)]} :
        IF ok /\ call.inv[i].k < Len(analysis.signals)
        THEN /\ trading_signals' =
                  [trading_signals EXCEPT ![call.inv[i].symbol] =
                     Append(@, SignalRow(call.inv[i].stamp,
                                         analysis.signals[call.inv[i].k + 1],
                                         analysis.volatility_regime))]
             /\ call' = [call EXCEPT !.inv[i].k = @ + 1, !.inv[i].stamp = now,
                           !.inv[i].pc = IF call.inv[i].k + 1 < Len(analysis.signals)
                                         THEN "signals" ELSE "return"]
             /\ UNCHANGED response
        ELSE /\ Rejected(i)
             /\ UNCHANGED trading_signals
  /\ UNCHANGED <<market_data, volatility_indicators, har_model_params, now, earlier>>

\* line 116: return analysis
AnalyzeReturns(i) ==
  /\ At(i, "return")
  /\ \E result \in {[NoResponse EXCEPT !.op = "analyzeVolatility", !.kind = "returned",
                       !.analysis = call.analysis[Slot(i)]]} :
        /\ call' = [call EXCEPT !.inv[i].pc = "returned", !.inv[i].result = result]
        /\ response' = result
  /\ UNCHANGED <<market_data, tables, now, earlier>>

\* the two invocations run within one reading of the clock
NextPair ==
  \/ \E i \in 1..Len(Symbols) : AnalyzeBegins(i)
  \/ \E i \in 1..Len(Symbols) : AnalyzeComputes(i)
  \/ \E i \in 1..Len(Symbols) : IndicatorsSaved(i)
  \/ \E i \in 1..Len(Symbols) : ModelSaved(i)
  \/ \E i \in 1..Len(Symbols) : SignalInserted(i)
  \/ \E i \in 1..Len(Symbols) : AnalyzeReturns(i)

SpecPair == InitPair /\ [][NextPair]_vars

\* what analyzeVolatility(symbol) gives when it runs alone on the stored bars
Alone(symbol) ==
  {ComputeAnalysis(market_data[symbol], solution, zeroPivot) :
     solution \in Solutions, zeroPivot \in BOOLEAN}

\* C21: under every interleaving of two invocations for different symbols,
\* an invocation that returns, returns the indicators, model, regime, trend
\* and signals it computes when run alone on the stored bars of its symbol,
\* and one that throws in the computation throws what it throws alone.
C21_InvocationsIndependent ==
  call.fn = "analyzeVolatility" =>
    \A i \in 1..Len(Symbols) :
       /\ call.inv[i].pc = "returned" =>
            \E alone \in Alone(call.inv[i].symbol) :
               /\ alone.status = "computed"
               /\ call.inv[i].result.analysis = alone.analysis
       /\ (call.inv[i].pc = "thrown" /\ call.inv[i].result.error # "query") =>
            \E alone \in Alone(call.inv[i].symbol) :
               /\ alone.status = "thrown"
               /\ call.inv[i].result.error = alone.error

\* the first invocation has returned while the second, whose analysis is
\* another one, stood between its computation and its return
C21_Witness ==
  /\ call.fn = "analyzeVolatility"
  /\ call.inv[1].pc = "returned"
  /\ call.inv[2].pc \in {"indicators", "model", "signals", "return"}
  /\ call.analysis[2] # NoAnalysis
  /\ call.analysis[2] # call.inv[1].result.analysis

====
